---- MODULE Spec2Model ----
(***************************************************************************)
(* Infinity OS deterministic AI policy engine                              *)
(* (packages/policy-engine/src/lib.rs).                                    *)
(*                                                                         *)
(* The engine is three functions: validate_ai_action (JSON boundary),      *)
(* evaluate_policy (the rule chain) and validate_gdpr_deletion.  None of   *)
(* them keeps state, so the state of the model is the caller's view: the   *)
(* call in flight, the value it returned, the functions it entered, and    *)
(* one remembered earlier call used to compare two calls with each other.  *)
(***************************************************************************)
EXTENDS Integers, Sequences, FiniteSets, TLC

VARIABLES
    pc,       \* "idle" | "returned": position of the caller
    call,     \* the last call: [fn, ...arguments]
    result,   \* what the last call returned
    trace,    \* functions entered by the last call, in order
    history   \* an earlier call and its result, kept by the observer

vars == <<pc, call, result, trace, history>>

-----------------------------------------------------------------------------
(* Bounds of the model *)

\* timestamps range over 0..MaxTimestamp (u64 in the source, only echoed)
MaxTimestamp == 1

Timestamps == 0..MaxTimestamp

-----------------------------------------------------------------------------
(* Policy constants *)

MAX_RISK_SCORE == 50

MAX_SESSION_AGE_SENSITIVE == 900

MAX_FAILED_ATTEMPTS == 5

\* inline literal of the default rule: audit_required: request.risk_score > 30
AUDIT_RISK_THRESHOLD == 30

\* risk_score is a u8
U8_MAX == 255

ALLOWED_READ_ACTIONS ==
    { "read_public_cache", "read_user_preferences", "read_module_config",
      "read_notification_settings", "read_search_index", "read_file_metadata",
      "read_app_store_listings", "read_system_metrics" }

ALLOWED_WRITE_ACTIONS ==
    { "write_user_preferences", "write_notification", "write_search_index",
      "write_ai_suggestion", "write_analytics_event", "adjust_ui_theme",
      "prefetch_module", "cache_file_metadata" }

ALLOWED_SYSTEM_ACTIONS ==
    { "schedule_background_task", "clear_expired_cache", "compress_old_logs",
      "send_notification", "update_search_ranking" }

BLOCKED_ACTIONS_without_kernel ==
    { "modify_security_policy", "delete_user_data",
      "modify_user_permissions", "access_other_user_files", "modify_audit_logs",
      "disable_mfa", "modify_encryption_keys", "access_vault_secrets",
      "modify_rbac_roles", "execute_arbitrary_code", "modify_network_config",
      "access_admin_panel", "modify_compliance_settings" }

BLOCKED_ACTIONS ==
    { "modify_kernel_scheduler", "modify_security_policy", "delete_user_data",
      "modify_user_permissions", "access_other_user_files", "modify_audit_logs",
      "disable_mfa", "modify_encryption_keys", "access_vault_secrets",
      "modify_rbac_roles", "execute_arbitrary_code", "modify_network_config",
      "access_admin_panel", "modify_compliance_settings" }

-----------------------------------------------------------------------------
(* PolicyDecision and the rule chain of evaluate_policy *)

PolicyDecision(permitted, applied_rule, reason, iso_control, timestamp_ms, audit_required) ==
    [ permitted      |-> permitted,
      applied_rule   |-> applied_rule,
      reason         |-> reason,
      iso_control    |-> iso_control,
      timestamp_ms   |-> timestamp_ms,
      audit_required |-> audit_required ]

\* RULE 1: BLOCKED_ACTIONS.contains(action); here one entry of the list is lost
is_blocked_short_list(action) == action \in BLOCKED_ACTIONS_without_kernel

is_blocked(action) == action \in BLOCKED_ACTIONS

\* RULE 2: risk_score > MAX_RISK_SCORE; here the comparison is >=
risk_exceeded_inclusive(request) == request.risk_score >= MAX_RISK_SCORE

risk_exceeded(request) == request.risk_score > MAX_RISK_SCORE

\* RULE 3: failed_attempts_last_hour >= MAX_FAILED_ATTEMPTS; here the engine
\* adds a remembered denial of its own to the caller's count
locked_out_counting(context) ==
    context.failed_attempts_last_hour
        + (IF history.call.fn = "evaluate_policy" /\ ~history.result.permitted
           THEN 1 ELSE 0)
      >= MAX_FAILED_ATTEMPTS

locked_out(context) == context.failed_attempts_last_hour >= MAX_FAILED_ATTEMPTS

\* RULE 4: let is_write = WRITE.contains(action) || SYSTEM.contains(action)
is_write(action) ==
    action \in ALLOWED_WRITE_ACTIONS \/ action \in ALLOWED_SYSTEM_ACTIONS

\* RULE 4: is_write && session_age_seconds > MAX_SESSION_AGE_SENSITIVE; here a
\* trusted network waives the check
session_expired_untrusted(request, context) ==
    /\ is_write(request.action)
    /\ context.session_age_seconds > MAX_SESSION_AGE_SENSITIVE
    /\ ~context.trusted_network

session_expired(request, context) ==
    /\ is_write(request.action)
    /\ context.session_age_seconds > MAX_SESSION_AGE_SENSITIVE

\* RULE 5: SYSTEM.contains(action) && !mfa_verified
mfa_missing(request, context) ==
    request.action \in ALLOWED_SYSTEM_ACTIONS /\ ~context.mfa_verified

\* RULE 6: user_role == "user" && SYSTEM.contains(action)
role_insufficient(request, context) ==
    context.user_role = "user" /\ request.action \in ALLOWED_SYSTEM_ACTIONS

\* String::to_lowercase on the identifiers the callers use
to_lowercase(s) ==
    CASE s = "READ_PUBLIC_CACHE" -> "read_public_cache"
      [] s = "Power_User"        -> "power_user"
      [] OTHER                   -> s

\* RULE 7: let is_allowed = READ.contains || WRITE.contains || SYSTEM.contains;
\* here everything that is not blocked counts as allowed
is_allowed_unless_blocked(action) == action \notin BLOCKED_ACTIONS

\* here the action is case-folded before the lookup
is_allowed_case_folded(action) ==
    \/ to_lowercase(action) \in ALLOWED_READ_ACTIONS
    \/ to_lowercase(action) \in ALLOWED_WRITE_ACTIONS
    \/ to_lowercase(action) \in ALLOWED_SYSTEM_ACTIONS

is_allowed(action) ==
    \/ action \in ALLOWED_READ_ACTIONS
    \/ action \in ALLOWED_WRITE_ACTIONS
    \/ action \in ALLOWED_SYSTEM_ACTIONS

HardBlock(request, timestamp_ms) ==
    PolicyDecision(FALSE, "HARD_BLOCK",
        "Action '" \o request.action
            \o "' is permanently blocked. AI cannot modify security-critical resources.",
        "A.9.4.1", timestamp_ms, TRUE)

RiskScoreExceeded(request, timestamp_ms) ==
    PolicyDecision(FALSE, "RISK_SCORE_EXCEEDED",
        "Risk score " \o ToString(request.risk_score)
            \o " exceeds maximum allowed " \o ToString(MAX_RISK_SCORE)
            \o ". Human review required.",
        "A.8.16", timestamp_ms, TRUE)

AccountLockout(context, timestamp_ms) ==
    PolicyDecision(FALSE, "ACCOUNT_LOCKOUT",
        "Too many failed attempts (" \o ToString(context.failed_attempts_last_hour)
            \o "/" \o ToString(MAX_FAILED_ATTEMPTS)
            \o "). Account temporarily locked.",
        "A.9.4.3", timestamp_ms, TRUE)

SessionExpired(context, timestamp_ms) ==
    PolicyDecision(FALSE, "SESSION_EXPIRED",
        "Session age " \o ToString(context.session_age_seconds)
            \o "s exceeds " \o ToString(MAX_SESSION_AGE_SENSITIVE)
            \o "s limit for write operations. Re-authentication required.",
        "A.9.4.2", timestamp_ms, FALSE)

MfaRequired(timestamp_ms) ==
    PolicyDecision(FALSE, "MFA_REQUIRED",
        "System-level actions require MFA verification.",
        "A.9.4.2", timestamp_ms, FALSE)

InsufficientRole(context, timestamp_ms) ==
    PolicyDecision(FALSE, "INSUFFICIENT_ROLE",
        "Role '" \o context.user_role
            \o "' cannot perform system actions. Requires 'power_user' or higher.",
        "A.9.2.3", timestamp_ms, FALSE)

NotInWhitelist(request, timestamp_ms) ==
    PolicyDecision(FALSE, "NOT_IN_WHITELIST",
        "Action '" \o request.action
            \o "' is not in the permitted actions whitelist. Default deny.",
        "A.9.4.1", timestamp_ms, TRUE)

WhitelistApproved(request, timestamp_ms) ==
    PolicyDecision(TRUE, "WHITELIST_APPROVED",
        "Action '" \o request.action \o "' approved. Risk score: "
            \o ToString(request.risk_score) \o "/" \o ToString(MAX_RISK_SCORE) \o ".",
        "A.9.4.1", timestamp_ms, request.risk_score > AUDIT_RISK_THRESHOLD)

\* the lockout check is made before the risk check
evaluate_policy_reordered(request, context, timestamp_ms) ==
    IF is_blocked(request.action) THEN HardBlock(request, timestamp_ms)
    ELSE IF locked_out(context) THEN AccountLockout(context, timestamp_ms)
    ELSE IF risk_exceeded(request) THEN RiskScoreExceeded(request, timestamp_ms)
    ELSE IF session_expired(request, context) THEN SessionExpired(context, timestamp_ms)
    ELSE IF mfa_missing(request, context) THEN MfaRequired(timestamp_ms)
    ELSE IF role_insufficient(request, context) THEN InsufficientRole(context, timestamp_ms)
    ELSE IF ~is_allowed(request.action) THEN NotInWhitelist(request, timestamp_ms)
    ELSE WhitelistApproved(request, timestamp_ms)

evaluate_policy(request, context, timestamp_ms) ==
    IF is_blocked(request.action) THEN HardBlock(request, timestamp_ms)
    ELSE IF risk_exceeded(request) THEN RiskScoreExceeded(request, timestamp_ms)
    ELSE IF locked_out(context) THEN AccountLockout(context, timestamp_ms)
    ELSE IF session_expired(request, context) THEN SessionExpired(context, timestamp_ms)
    ELSE IF mfa_missing(request, context) THEN MfaRequired(timestamp_ms)
    ELSE IF role_insufficient(request, context) THEN InsufficientRole(context, timestamp_ms)
    ELSE IF ~is_allowed(request.action) THEN NotInWhitelist(request, timestamp_ms)
    ELSE WhitelistApproved(request, timestamp_ms)

-----------------------------------------------------------------------------
(* JSON at the boundary (serde_json).  A payload is either text that is   *)
(* not JSON at all, or an object: a function from field names to values.  *)

JStr(s)  == [t |-> "string", s |-> s,  n |-> 0, b |-> FALSE]
JNum(n)  == [t |-> "number", s |-> "", n |-> n, b |-> FALSE]
JBool(b) == [t |-> "bool",   s |-> "", n |-> 0, b |-> b]
JNull    == [t |-> "null",   s |-> "", n |-> 0, b |-> FALSE]

JsonObject(obj) == [syntax_ok |-> TRUE, obj |-> obj]
NotJson == [syntax_ok |-> FALSE, obj |-> [f \in {} |-> JNull]]

Some(s) == [some |-> TRUE, v |-> s]
None == [some |-> FALSE, v |-> ""]

Ok(v) == [ok |-> TRUE, val |-> v, err |-> ""]
Err(e) == [ok |-> FALSE, val |-> <<>>, err |-> e]

\* a required field of type String / bool / unsigned integer of the given width
Has(o, f) == f \in DOMAIN o
IsString(o, f) == Has(o, f) /\ o[f].t = "string"
IsBool(o, f) == Has(o, f) /\ o[f].t = "bool"
IsUnsigned(o, f, max) == Has(o, f) /\ o[f].t = "number" /\ o[f].n >= 0 /\ o[f].n <= max
\* a u32 or u64 field: every number of the model is far below 2^32, so only
\* the sign can put it out of range
IsUnsignedWide(o, f) == Has(o, f) /\ o[f].t = "number" /\ o[f].n >= 0
\* an Option<String> field: absent, null or a string
IsOptString(o, f) == ~Has(o, f) \/ o[f].t \in {"null", "string"}
OptString(o, f) == IF Has(o, f) /\ o[f].t = "string" THEN Some(o[f].s) ELSE None

\* #[derive(Deserialize)] struct AiRequest
AiRequestRequired == <<"action", "target_resource", "risk_score", "requesting_module">>

from_str_AiRequest(json) ==
    IF ~json.syntax_ok THEN Err("expected value")
    ELSE LET o == json.obj IN
        IF Has(o, "action") /\ ~IsString(o, "action")
            THEN Err("invalid type, expected a string")
        ELSE IF Has(o, "target_resource") /\ ~IsString(o, "target_resource")
            THEN Err("invalid type, expected a string")
        ELSE IF Has(o, "risk_score") /\ ~IsUnsigned(o, "risk_score", U8_MAX)
            THEN Err("invalid value, expected u8")
        ELSE IF Has(o, "requesting_module") /\ ~IsString(o, "requesting_module")
            THEN Err("invalid type, expected a string")
        ELSE IF ~IsOptString(o, "user_id") \/ ~IsOptString(o, "organisation_id")
            THEN Err("invalid type, expected a string")
        ELSE IF \E i \in 1..Len(AiRequestRequired) : ~Has(o, AiRequestRequired[i])
            THEN LET first == CHOOSE k \in 1..Len(AiRequestRequired) :
                            /\ ~Has(o, AiRequestRequired[k])
                            /\ \A j \in 1..(k-1) : Has(o, AiRequestRequired[j])
                 IN Err("missing field " \o AiRequestRequired[first])
        ELSE Ok([ action            |-> o["action"].s,
                  target_resource   |-> o["target_resource"].s,
                  risk_score        |-> o["risk_score"].n,
                  requesting_module |-> o["requesting_module"].s,
                  user_id           |-> OptString(o, "user_id"),
                  organisation_id   |-> OptString(o, "organisation_id"),
                  metadata          |-> IF Has(o, "metadata") THEN o["metadata"] ELSE JNull ])

\* #[derive(Deserialize)] struct SecurityContext
SecurityContextRequired ==
    <<"user_role", "mfa_verified", "session_age_seconds", "trusted_network",
      "failed_attempts_last_hour">>

from_str_SecurityContext(json) ==
    IF ~json.syntax_ok THEN Err("expected value")
    ELSE LET o == json.obj IN
        IF Has(o, "user_role") /\ ~IsString(o, "user_role")
            THEN Err("invalid type, expected a string")
        ELSE IF Has(o, "mfa_verified") /\ ~IsBool(o, "mfa_verified")
            THEN Err("invalid type, expected a boolean")
        ELSE IF Has(o, "session_age_seconds")
                /\ ~IsUnsignedWide(o, "session_age_seconds")
            THEN Err("invalid value, expected u64")
        ELSE IF Has(o, "trusted_network") /\ ~IsBool(o, "trusted_network")
            THEN Err("invalid type, expected a boolean")
        ELSE IF Has(o, "failed_attempts_last_hour")
                /\ ~IsUnsignedWide(o, "failed_attempts_last_hour")
            THEN Err("invalid value, expected u32")
        ELSE IF \E i \in 1..Len(SecurityContextRequired) : ~Has(o, SecurityContextRequired[i])
            THEN LET first == CHOOSE k \in 1..Len(SecurityContextRequired) :
                            /\ ~Has(o, SecurityContextRequired[k])
                            /\ \A j \in 1..(k-1) : Has(o, SecurityContextRequired[j])
                 IN Err("missing field " \o SecurityContextRequired[first])
        ELSE Ok([ user_role                 |-> o["user_role"].s,
                  mfa_verified              |-> o["mfa_verified"].b,
                  session_age_seconds       |-> o["session_age_seconds"].n,
                  trusted_network           |-> o["trusted_network"].b,
                  failed_attempts_last_hour |-> o["failed_attempts_last_hour"].n ])

\* serde_json::to_string(&PolicyDecision).unwrap_or_default()
to_string_PolicyDecision(d) ==
    JsonObject([ permitted      |-> JBool(d.permitted),
                 applied_rule   |-> JStr(d.applied_rule),
                 reason         |-> JStr(d.reason),
                 iso_control    |-> JStr(d.iso_control),
                 timestamp_ms   |-> JNum(d.timestamp_ms),
                 audit_required |-> JBool(d.audit_required) ])

ParseError(reason, timestamp_ms) ==
    PolicyDecision(FALSE, "PARSE_ERROR", reason, "A.8.16", timestamp_ms, TRUE)

\* what SecurityContext::default() would be: "", false, 0, false, 0
DefaultContext ==
    [ user_role |-> "", mfa_verified |-> FALSE, session_age_seconds |-> 0,
      trusted_network |-> FALSE, failed_attempts_last_hour |-> 0 ]

\* a context that does not parse is replaced by the default context
validate_ai_action_lenient(request_json, context_json, timestamp_ms) ==
    LET rq == from_str_AiRequest(request_json)
        cx == from_str_SecurityContext(context_json)
    IN  IF ~rq.ok
        THEN [ ret |-> to_string_PolicyDecision(
                          ParseError("Invalid request JSON: " \o rq.err, timestamp_ms)),
               entered |-> <<"validate_ai_action">> ]
        ELSE [ ret |-> to_string_PolicyDecision(
                          evaluate_policy(rq.val,
                              IF cx.ok THEN cx.val ELSE DefaultContext, timestamp_ms)),
               entered |-> <<"validate_ai_action", "evaluate_policy">> ]

validate_ai_action(request_json, context_json, timestamp_ms) ==
    LET rq == from_str_AiRequest(request_json)
        cx == from_str_SecurityContext(context_json)
    IN  IF ~rq.ok
        THEN [ ret |-> to_string_PolicyDecision(
                          ParseError("Invalid request JSON: " \o rq.err, timestamp_ms)),
               entered |-> <<"validate_ai_action">> ]
        ELSE IF ~cx.ok
        THEN [ ret |-> to_string_PolicyDecision(
                          ParseError("Invalid context JSON: " \o cx.err, timestamp_ms)),
               entered |-> <<"validate_ai_action">> ]
        ELSE [ ret |-> to_string_PolicyDecision(
                          evaluate_policy(rq.val, cx.val, timestamp_ms)),
               entered |-> <<"validate_ai_action", "evaluate_policy">> ]

-----------------------------------------------------------------------------
(* validate_gdpr_deletion *)

\* the super_admin alternative is forgotten
gdpr_permitted_org_only(user_id, requesting_user_id, requester_role) ==
    \/ user_id = requesting_user_id
    \/ requester_role = "org_admin"

gdpr_permitted(user_id, requesting_user_id, requester_role) ==
    \/ user_id = requesting_user_id
    \/ requester_role = "org_admin"
    \/ requester_role = "super_admin"

validate_gdpr_deletion(user_id, requesting_user_id, requester_role, timestamp_ms) ==
    LET permitted == gdpr_permitted(user_id, requesting_user_id, requester_role) IN
    JsonObject([
        permitted    |-> JBool(permitted),
        reason       |-> JStr(IF permitted
            THEN "GDPR deletion request validated. Proceed with crypto-shredding."
            ELSE "Deletion request denied: requester is not the data subject or an authorised admin."),
        action       |-> JStr(IF permitted THEN "DELETE_VAULT_KEY" ELSE "DENY"),
        iso_control  |-> JStr("A.8.3"),
        \* the dash of the source is U+2014; it is written as two hyphens here
        gdpr_article |-> JStr("Article 17 -- Right to erasure"),
        timestamp_ms |-> JNum(timestamp_ms) ])

-----------------------------------------------------------------------------
(* Inputs the callers draw from *)

\* two members of each classification set, and strings in none of them
Actions ==
    { "read_public_cache", "read_system_metrics",
      "write_user_preferences", "cache_file_metadata",
      "schedule_background_task", "update_search_ranking",
      "modify_kernel_scheduler", "modify_compliance_settings",
      "some_unknown_action", "READ_PUBLIC_CACHE", "" }

\* u8 values on both sides of the audit threshold and of MAX_RISK_SCORE
RiskScores == {0, 30, 31, 50, 51, 255}

Roles == {"user", "power_user", "org_admin", "super_admin", "guest", "Power_User"}

SessionAges == {900, 901}

FailedAttempts == {0, 4, 5}

UserIds == {"user-123", "user-456"}

AiRequest(action, risk_score) ==
    [ action            |-> action,
      target_resource   |-> "cache:public",
      risk_score        |-> risk_score,
      requesting_module |-> "com.infinity-os.shell",
      user_id           |-> Some("user-123"),
      organisation_id   |-> Some("org-456"),
      metadata          |-> JNull ]

Requests == { AiRequest(a, r) : a \in Actions, r \in RiskScores }

Contexts ==
    [ user_role                 : Roles,
      mfa_verified              : BOOLEAN,
      session_age_seconds       : SessionAges,
      trusted_network           : BOOLEAN,
      failed_attempts_last_hour : FailedAttempts ]

\* the inputs that differ from one permitted system request in at most one of
\* action, risk score, role, MFA, session age and failed attempts
BaseRequest == AiRequest("schedule_background_task", 30)

BaseContext ==
    [ user_role |-> "power_user", mfa_verified |-> TRUE, session_age_seconds |-> 900,
      trusted_network |-> FALSE, failed_attempts_last_hour |-> 4 ]

Differs(a, b) == IF a = b THEN 0 ELSE 1

Distance(request, context) ==
      Differs(request.action, BaseRequest.action)
    + Differs(request.risk_score, BaseRequest.risk_score)
    + Differs(context.user_role, BaseContext.user_role)
    + Differs(context.mfa_verified, BaseContext.mfa_verified)
    + Differs(context.session_age_seconds, BaseContext.session_age_seconds)
    + Differs(context.failed_attempts_last_hour, BaseContext.failed_attempts_last_hour)

NearInputs ==
    { in \in Requests \X Contexts : Distance(in[1], in[2]) <= 1 }

\* the payloads a caller sends: the serialized structs, possibly damaged
OptJson(opt) == IF opt.some THEN JStr(opt.v) ELSE JNull

to_string_AiRequest(r) ==
    JsonObject([ action            |-> JStr(r.action),
                 target_resource   |-> JStr(r.target_resource),
                 risk_score        |-> JNum(r.risk_score),
                 requesting_module |-> JStr(r.requesting_module),
                 user_id           |-> OptJson(r.user_id),
                 organisation_id   |-> OptJson(r.organisation_id),
                 metadata          |-> r.metadata ])

to_string_SecurityContext(c) ==
    JsonObject([ user_role                 |-> JStr(c.user_role),
                 mfa_verified              |-> JBool(c.mfa_verified),
                 session_age_seconds       |-> JNum(c.session_age_seconds),
                 trusted_network           |-> JBool(c.trusted_network),
                 failed_attempts_last_hour |-> JNum(c.failed_attempts_last_hour) ])

Without(json, field) ==
    JsonObject([f \in DOMAIN json.obj \ {field} |-> json.obj[f]])

With(json, field, value) ==
    JsonObject([f \in DOMAIN json.obj |-> IF f = field THEN value ELSE json.obj[f]])

RequestDamage ==
    {"none", "not_json", "missing_action", "risk_score_256", "risk_score_string"}

ContextDamage == {"none", "not_json", "missing_mfa_verified", "user_role_null"}

Damaged(json, damage) ==
    CASE damage = "none"                 -> json
      [] damage = "not_json"             -> NotJson
      [] damage = "missing_action"       -> Without(json, "action")
      [] damage = "risk_score_256"       -> With(json, "risk_score", JNum(U8_MAX + 1))
      [] damage = "risk_score_string"    -> With(json, "risk_score", JStr("high"))
      [] damage = "missing_mfa_verified" -> Without(json, "mfa_verified")
      [] damage = "user_role_null"       -> With(json, "user_role", JNull)

RequestPayloads ==
    { Damaged(to_string_AiRequest(r), d) : r \in Requests, d \in RequestDamage }

ContextPayloads ==
    { Damaged(to_string_SecurityContext(c), d) : c \in Contexts, d \in ContextDamage }

-----------------------------------------------------------------------------
(* The callers *)

NoCall == [fn |-> "none"]
NoResult == [none |-> TRUE]
NoHistory == [call |-> NoCall, result |-> NoResult]

Init ==
    /\ pc = "idle"
    /\ call = NoCall
    /\ result = NoResult
    /\ trace = <<>>
    /\ history = NoHistory

\* a direct call of evaluate_policy, as the unit tests make it
Evaluate(request, context, timestamp_ms) ==
    /\ call' = [ fn |-> "evaluate_policy", request |-> request,
                 context |-> context, timestamp_ms |-> timestamp_ms ]
    /\ result' = evaluate_policy(request, context, timestamp_ms)
    /\ trace' = <<"evaluate_policy">>
    /\ pc' = "returned"
    /\ UNCHANGED history

EvaluatePolicy ==
    /\ pc = "idle"
    /\ \E request \in Requests, context \in Contexts, timestamp_ms \in Timestamps :
        Evaluate(request, context, timestamp_ms)

EvaluatePolicyNear ==
    /\ pc = "idle"
    /\ \E in \in NearInputs, timestamp_ms \in Timestamps :
        Evaluate(in[1], in[2], timestamp_ms)

ValidateAiAction ==
    /\ pc = "idle"
    /\ \E request_json \in RequestPayloads, context_json \in ContextPayloads,
          timestamp_ms \in Timestamps :
        /\ call' = [ fn |-> "validate_ai_action", request_json |-> request_json,
                     context_json |-> context_json, timestamp_ms |-> timestamp_ms ]
        /\ LET r == validate_ai_action(request_json, context_json, timestamp_ms)
           IN  result' = r.ret /\ trace' = r.entered
        /\ pc' = "returned"
        /\ UNCHANGED history

ValidateGdprDeletion ==
    /\ pc = "idle"
    /\ \E user_id \in UserIds, requesting_user_id \in UserIds, requester_role \in Roles,
          timestamp_ms \in Timestamps :
        /\ call' = [ fn |-> "validate_gdpr_deletion", user_id |-> user_id,
                     requesting_user_id |-> requesting_user_id,
                     requester_role |-> requester_role, timestamp_ms |-> timestamp_ms ]
        /\ result' = validate_gdpr_deletion(user_id, requesting_user_id,
                                            requester_role, timestamp_ms)
        /\ trace' = <<"validate_gdpr_deletion">>
        /\ pc' = "returned"
        /\ UNCHANGED history

\* the caller takes the returned value; nothing of the call stays behind
Return ==
    /\ pc = "returned"
    /\ pc' = "idle"
    /\ call' = NoCall
    /\ result' = NoResult
    /\ trace' = <<>>
    /\ UNCHANGED history

\* as Return, and the observer remembers the call and what it returned
Remember ==
    /\ pc = "returned"
    /\ history' = [call |-> call, result |-> result]
    /\ pc' = "idle"
    /\ call' = NoCall
    /\ result' = NoResult
    /\ trace' = <<>>

Next ==
    \/ EvaluatePolicy
    \/ ValidateAiAction
    \/ ValidateGdprDeletion
    \/ Return

Spec == Init /\ [][Next]_vars

\* sequences of calls, with one earlier call remembered for comparison
NextHistory ==
    \/ EvaluatePolicyNear
    \/ ValidateGdprDeletion
    \/ Return
    \/ Remember

SpecHistory == Init /\ [][NextHistory]_vars

-----------------------------------------------------------------------------
(* Properties *)

Returned(fn) == pc = "returned" /\ call.fn = fn

AllowedActions ==
    ALLOWED_READ_ACTIONS \cup ALLOWED_WRITE_ACTIONS \cup ALLOWED_SYSTEM_ACTIONS

\* the rule table of the design, row by row: condition, name, control, audit
RuleHolds(k, request, context) ==
    CASE k = 1 -> request.action \in BLOCKED_ACTIONS
      [] k = 2 -> request.risk_score > 50
      [] k = 3 -> context.failed_attempts_last_hour >= 5
      [] k = 4 -> /\ request.action \in ALLOWED_WRITE_ACTIONS \cup ALLOWED_SYSTEM_ACTIONS
                  /\ context.session_age_seconds > 900
      [] k = 5 -> request.action \in ALLOWED_SYSTEM_ACTIONS /\ ~context.mfa_verified
      [] k = 6 -> context.user_role = "user" /\ request.action \in ALLOWED_SYSTEM_ACTIONS
      [] k = 7 -> request.action \notin AllowedActions
      [] k = 8 -> TRUE

RuleName ==
    << "HARD_BLOCK", "RISK_SCORE_EXCEEDED", "ACCOUNT_LOCKOUT", "SESSION_EXPIRED",
       "MFA_REQUIRED", "INSUFFICIENT_ROLE", "NOT_IN_WHITELIST", "WHITELIST_APPROVED" >>

RuleControl ==
    << "A.9.4.1", "A.8.16", "A.9.4.3", "A.9.4.2", "A.9.4.2", "A.9.2.3", "A.9.4.1",
       "A.9.4.1" >>

RuleAudit(k, request) ==
    IF k = 8 THEN request.risk_score > 30 ELSE k \in {1, 2, 3, 7}

FirstRule(request, context) ==
    CHOOSE k \in 1..8 :
        /\ RuleHolds(k, request, context)
        /\ \A j \in 1..(k - 1) : ~RuleHolds(j, request, context)

\* C1: evaluate_policy returns the row of the rule table whose condition is the
\* first to hold: rule name, permit/deny, control reference and audit flag are
\* that row's, so a higher-priority rule always beats a lower one.
C1_FirstMatchingRuleWins ==
    Returned("evaluate_policy") =>
        LET k == FirstRule(call.request, call.context) IN
            /\ result.applied_rule = RuleName[k]
            /\ result.permitted = (k = 8)
            /\ result.iso_control = RuleControl[k]
            /\ result.audit_required = RuleAudit(k, call.request)

\* a call that satisfies rules 2 and 3 at once and was decided by rule 2
C1_Witness ==
    /\ Returned("evaluate_policy")
    /\ ~RuleHolds(1, call.request, call.context)
    /\ RuleHolds(2, call.request, call.context)
    /\ RuleHolds(3, call.request, call.context)
    /\ result.applied_rule = "RISK_SCORE_EXCEEDED"

\* C2: a request whose action is in the Blocked set is denied by HARD_BLOCK,
\* whatever the role, MFA flag, session age, failed attempts, network and risk.
C2_BlockedAlwaysHardBlock ==
    (Returned("evaluate_policy") /\ call.request.action \in BLOCKED_ACTIONS) =>
        (~result.permitted /\ result.applied_rule = "HARD_BLOCK")

\* a blocked action asked for by a super_admin with MFA and no risk at all
C2_Witness ==
    /\ Returned("evaluate_policy")
    /\ call.request.action = "modify_kernel_scheduler"
    /\ call.request.risk_score = 0
    /\ call.context.user_role = "super_admin"
    /\ call.context.mfa_verified
    /\ call.context.failed_attempts_last_hour = 0
    /\ result.applied_rule = "HARD_BLOCK"

\* C3: evaluate_policy permits only actions that are members of Read, Write or
\* System: an action outside the three sets is denied in every context.
C3_PermitOnlyListedActions ==
    (Returned("evaluate_policy") /\ result.permitted) =>
        call.request.action \in AllowedActions

\* an unlisted action in the most favourable context, denied
C3_Witness ==
    /\ Returned("evaluate_policy")
    /\ call.request.action \notin AllowedActions \cup BLOCKED_ACTIONS
    /\ call.request.risk_score = 0
    /\ call.context.user_role = "super_admin"
    /\ call.context.mfa_verified
    /\ call.context.failed_attempts_last_hour = 0
    /\ ~result.permitted

\* C4 as stated: an action absent from all four sets always yields
\* NOT_IN_WHITELIST.
C4_UnlistedAlwaysNotInWhitelist ==
    (Returned("evaluate_policy")
        /\ call.request.action \notin AllowedActions \cup BLOCKED_ACTIONS) =>
        result.applied_rule = "NOT_IN_WHITELIST"

\* C4 as amended: an action absent from all four sets is always denied, by
\* RISK_SCORE_EXCEEDED when the risk score is above 50, else by ACCOUNT_LOCKOUT
\* when there are 5 or more failed attempts, and by NOT_IN_WHITELIST otherwise.
C4_UnlistedDeniedByFirstRule ==
    (Returned("evaluate_policy")
        /\ call.request.action \notin AllowedActions \cup BLOCKED_ACTIONS) =>
        /\ ~result.permitted
        /\ result.applied_rule =
            IF call.request.risk_score > 50 THEN "RISK_SCORE_EXCEEDED"
            ELSE IF call.context.failed_attempts_last_hour >= 5 THEN "ACCOUNT_LOCKOUT"
            ELSE "NOT_IN_WHITELIST"

\* an unlisted action that differs from a listed one only in case, with low
\* risk and no lockout, denied by the whitelist rule
C4_Witness ==
    /\ Returned("evaluate_policy")
    /\ call.request.action = "READ_PUBLIC_CACHE"
    /\ call.request.risk_score <= 50
    /\ call.context.failed_attempts_last_hour < 5
    /\ result.applied_rule = "NOT_IN_WHITELIST"

\* C5: a request with risk score above 50 whose action is not blocked is denied
\* by RISK_SCORE_EXCEEDED whatever the action and context; a risk score of
\* exactly 50 is never denied by that rule.
C5_RiskAboveFiftyDenied ==
    Returned("evaluate_policy") =>
        /\ (call.request.risk_score > 50 /\ call.request.action \notin BLOCKED_ACTIONS) =>
                (~result.permitted /\ result.applied_rule = "RISK_SCORE_EXCEEDED")
        /\ call.request.risk_score = 50 => result.applied_rule # "RISK_SCORE_EXCEEDED"

\* a listed read action at risk 51 in the most favourable context, denied by
\* the risk rule
C5_Witness ==
    /\ Returned("evaluate_policy")
    /\ call.request.action = "read_public_cache"
    /\ call.request.risk_score = 51
    /\ call.context.user_role = "super_admin"
    /\ call.context.mfa_verified
    /\ call.context.failed_attempts_last_hour = 0
    /\ result.applied_rule = "RISK_SCORE_EXCEEDED"

\* C6: validate_gdpr_deletion permits exactly when the requester is the data
\* subject or has role org_admin or super_admin; the action label is
\* DELETE_VAULT_KEY when permitted and DENY otherwise; iso_control is A.8.3.
C6_GdprPermitIffSelfOrAdmin ==
    Returned("validate_gdpr_deletion") =>
        LET allowed == \/ call.user_id = call.requesting_user_id
                       \/ call.requester_role \in {"org_admin", "super_admin"}
        IN  /\ result.syntax_ok
            /\ result.obj["permitted"] = JBool(allowed)
            /\ result.obj["action"] = JStr(IF allowed THEN "DELETE_VAULT_KEY" ELSE "DENY")
            /\ result.obj["iso_control"] = JStr("A.8.3")

\* a super_admin deleting another user's data
C6_Witness ==
    /\ Returned("validate_gdpr_deletion")
    /\ call.user_id # call.requesting_user_id
    /\ call.requester_role = "super_admin"
    /\ result.obj["action"] = JStr("DELETE_VAULT_KEY")

\* C7: when the request payload or the context payload does not parse,
\* validate_ai_action returns permitted=false, PARSE_ERROR, A.8.16,
\* audit_required=true and the caller's timestamp, without entering
\* evaluate_policy, also when the other payload is well-formed.
C7_ParseFailureFailsClosed ==
    (/\ Returned("validate_ai_action")
     /\ \/ ~from_str_AiRequest(call.request_json).ok
        \/ ~from_str_SecurityContext(call.context_json).ok) =>
        /\ result.syntax_ok
        /\ result.obj["permitted"] = JBool(FALSE)
        /\ result.obj["applied_rule"] = JStr("PARSE_ERROR")
        /\ result.obj["iso_control"] = JStr("A.8.16")
        /\ result.obj["audit_required"] = JBool(TRUE)
        /\ result.obj["timestamp_ms"] = JNum(call.timestamp_ms)
        /\ \A i \in 1..Len(trace) : trace[i] # "evaluate_policy"

\* a request that parses and that some context permits, sent with a context
\* that does not parse
C7_Witness ==
    /\ Returned("validate_ai_action")
    /\ from_str_AiRequest(call.request_json).ok
    /\ \E context \in Contexts :
          FirstRule(from_str_AiRequest(call.request_json).val, context) = 8
    /\ ~from_str_SecurityContext(call.context_json).ok
    /\ result.obj["applied_rule"] = JStr("PARSE_ERROR")

C9_TrustedNetworkHasNoEffect ==
    (/\ Returned("evaluate_policy")
     /\ history.call.fn = "evaluate_policy"
     /\ history.call.request = call.request
     /\ history.call.timestamp_ms = call.timestamp_ms
     /\ history.call.context.trusted_network # call.context.trusted_network
     /\ [history.call.context EXCEPT !.trusted_network = call.context.trusted_network]
            = call.context) =>
        /\ history.result.permitted = result.permitted
        /\ history.result.applied_rule = result.applied_rule
        /\ history.result.reason = result.reason
        /\ history.result.iso_control = result.iso_control
        /\ history.result.timestamp_ms = result.timestamp_ms
        /\ history.result.audit_required = result.audit_required

\* a write-class request with a stale session, once from a trusted and once
\* from an untrusted network
C9_Witness ==
    /\ Returned("evaluate_policy")
    /\ history.call.fn = "evaluate_policy"
    /\ history.call.request = call.request
    /\ history.call.timestamp_ms = call.timestamp_ms
    /\ history.call.context.trusted_network # call.context.trusted_network
    /\ [history.call.context EXCEPT !.trusted_network = call.context.trusted_network]
            = call.context
    /\ call.context.session_age_seconds > 900
    /\ result.applied_rule = "SESSION_EXPIRED"

\* C10: a System action is permitted only to the roles power_user, org_admin
\* and super_admin; every other role string is denied.
C10_SystemActionNeedsPowerUser ==
    (/\ Returned("evaluate_policy")
     /\ call.request.action \in ALLOWED_SYSTEM_ACTIONS
     /\ result.permitted) =>
        call.context.user_role \in {"power_user", "org_admin", "super_admin"}

====
